---- MODULE Spec2Model ----
(***************************************************************************)
(* Covariance kernels for Gaussian processes (kernel.py): the abstract     *)
(* Kernel, the signal-variance mixin SVKernel, the isotropic and ARD       *)
(* Gaussian kernels with their scaled variants, and the Matern 3/2 and     *)
(* 5/2 kernels.                                                            *)
(*                                                                         *)
(* Numbers.  Hyperparameters and coordinates are exact rationals <<n, d>>. *)
(* A float computed by a kernel is kept in the closed form the code        *)
(* evaluates, [c, f, a] standing for the real number c * F_f(a):           *)
(*     f = "exp"   F(a) = e^(-a)                                           *)
(*     f = "rexp"  F(a) = e^(-sqrt a)                                      *)
(*     f = "m3"    F(a) = (1 + sqrt a) e^(-sqrt a)                         *)
(*     f = "m5"    F(a) = (1 + sqrt a + a/3) e^(-sqrt a)                   *)
(*     f = "m5d"   F(a) = (a + (sqrt a)^3) e^(-sqrt a)                     *)
(*     f = "nan"   the IEEE not-a-number                                   *)
(* so a plain rational q is [q, "exp", 0].  Rounding is not modelled.      *)
(* Python indices are kept 0-based: a batch X is a function on 0..NX-1.    *)
(***************************************************************************)
EXTENDS Integers, Sequences, FiniteSets, TLC

VARIABLES self, op, ret, covCalls, written, stdout

vars == <<self, op, ret, covCalls, written, stdout>>

\* Bounds of the explored inputs: the length of a hyperparameter vector and
\* the number of points of a batch.
MaxHpLen == 3
MaxN == 2

\* The dimensions of the points, and the values a hyperparameter and a
\* coordinate are drawn from.  The closed forms are uniform in the values;
\* two of each keep width, magnitude and distance visible in every result,
\* and the two dimensions reach every case of numpy's broadcasting.
Dims == {1, 2}
HpValues == {1, 2}
Coords == {0, 1}

-----------------------------------------------------------------------------
\* Exact rational arithmetic (Python float arithmetic without rounding).

Abs(n) == IF n < 0 THEN -n ELSE n

RECURSIVE Gcd(_, _)
Gcd(a, b) == IF b = 0 THEN a ELSE Gcd(b, a % b)

Rat(n, d) ==
    LET g == Gcd(Abs(n), Abs(d))
        s == IF d < 0 THEN -1 ELSE 1
    IN  <<(s * n) \div g, (s * d) \div g>>

RInt(n) == <<n, 1>>
RAdd(p, q) == Rat(p[1] * q[2] + q[1] * p[2], p[2] * q[2])
RSub(p, q) == Rat(p[1] * q[2] - q[1] * p[2], p[2] * q[2])
RMul(p, q) == Rat(p[1] * q[1], p[2] * q[2])
RDiv(p, q) == Rat(p[1] * q[2], p[2] * q[1])
RLess(p, q) == p[1] * q[2] < q[1] * p[2]

RECURSIVE RSum(_)
RSum(s) == IF s = <<>> THEN RInt(0) ELSE RAdd(Head(s), RSum(Tail(s)))

\* Floats in closed form.
Flt(c, f, a) ==
    IF f = "nan" THEN [c |-> RInt(0), f |-> "nan", a |-> RInt(0)]
    ELSE IF c = RInt(0) \/ (f = "m5d" /\ a = RInt(0))
         THEN [c |-> RInt(0), f |-> "exp", a |-> RInt(0)]
    ELSE IF a = RInt(0) THEN [c |-> c, f |-> "exp", a |-> RInt(0)]
    ELSE [c |-> c, f |-> f, a |-> a]

NaN == Flt(RInt(0), "nan", RInt(0))
Num(q) == Flt(q, "exp", RInt(0))

\* q * v for a rational q (2.0 * K, self._sf2 * k, ... / 3.0)
FScale(q, v) == IF v.f = "nan" THEN NaN ELSE Flt(RMul(q, v.c), v.f, v.a)

\* v * w, one entry of the elementwise product K * C
\* (both factors are of the form c * e^(-a) wherever the code multiplies)
FMul(v, w) ==
    IF v.f = "nan" \/ w.f = "nan" THEN NaN
    ELSE Flt(RMul(v.c, w.c), "exp", RAdd(v.a, w.a))

\* Python's == on floats: nan equals nothing, itself included
FEq(v, w) == v.f # "nan" /\ w.f # "nan" /\ v = w

\* numpy.exp(-q), elementwise on an array
exp_neg(q) == Flt(RInt(1), "exp", q)

-----------------------------------------------------------------------------
\* Points, batches, hyperparameter vectors.

Points(D) == [1..D -> {RInt(c) : c \in Coords}]
Batches == UNION {[0..(N - 1) -> Points(D)] : N \in 1..MaxN, D \in Dims}
HpVectors == UNION {[1..L -> {RInt(h) : h \in HpValues}] : L \in 1..MaxHpLen}
NoBatch == <<>>

\* x1 - x2 and (x1 - x2)**2 on arrays of one shape
ArrSub(x1, x2) == [d \in DOMAIN x1 |-> RSub(x1[d], x2[d])]
ArrSq(x) == [d \in DOMAIN x |-> RMul(x[d], x[d])]
\* numpy.linalg.norm(x)**2 and numpy.sum(x**2)
SqDist(x1, x2) == RSum(ArrSq(ArrSub(x1, x2)))

\* hyperparams[:-1] and hyperparams[-1]
ButLast(s) == SubSeq(s, 1, Len(s) - 1)
Last(s) == s[Len(s)]

-----------------------------------------------------------------------------
\* Construction.  A kernel object is a record of its instance attributes;
\* attrs is the set of attributes the constructors have assigned.

Classes == {"Kernel", "GaussianKernel_iso", "SVGaussianKernel_iso",
            "GaussianKernel_ard", "SVGaussianKernel_ard",
            "MaternKernel3", "MaternKernel5"}

Unset == <<>>

NewObject(cls) ==
    [cls |-> cls, attrs |-> {}, hyperparams |-> Unset, writeable |-> TRUE,
     theta |-> Unset, itheta2 |-> Unset, magnitude |-> Unset, sf2 |-> Unset,
     sqrt3 |-> Unset]

\* numpy.sqrt of a rational: a surd, kept by its square
Sqrt(q) == [sq |-> q]

\* numpy.clip(hyperparams, 1e-4, 1e4)
ClipLo == Rat(1, 10000)
ClipHi == Rat(10000, 1)
clip(a) == [i \in DOMAIN a |->
              IF RLess(a[i], ClipLo) THEN ClipLo
              ELSE IF RLess(ClipHi, a[i]) THEN ClipHi ELSE a[i]]

\* exp(2.0*log(mag)), for mag > 0
SignalVariance(mag) == RMul(mag, mag)

\* Kernel_init without setflags(write=False)
Kernel_init_writeable(k, hyperparams) ==
    [k EXCEPT !.hyperparams = hyperparams, !.attrs = @ \cup {"hyperparams"}]

Kernel_init(k, hyperparams) ==
    [k EXCEPT !.hyperparams = hyperparams, !.writeable = FALSE,
              !.attrs = @ \cup {"hyperparams"}]

SVKernel_init(k, mag) ==
    [k EXCEPT !.magnitude = mag, !.sf2 = SignalVariance(mag),
              !.attrs = @ \cup {"magnitude", "sf2"}]

GaussianKernel_iso_init(k, hyperparams) ==
    [Kernel_init(k, hyperparams) EXCEPT
        !.theta = clip(hyperparams),
        !.itheta2 = [i \in DOMAIN hyperparams |->
                        RDiv(RInt(1), RMul(hyperparams[i], hyperparams[i]))],
        !.attrs = @ \cup {"theta", "itheta2"}]

SVGaussianKernel_iso_init(k, hyperparams) ==
    LET base == GaussianKernel_iso_init(k, ButLast(hyperparams))
        sv   == SVKernel_init(base, Last(hyperparams))
    IN  [sv EXCEPT !.hyperparams = hyperparams, !.writeable = FALSE]

GaussianKernel_ard_init(k, hyperparams) ==
    LET theta == clip(hyperparams)
    IN  [Kernel_init(k, hyperparams) EXCEPT
            !.theta = theta,
            !.itheta2 = [i \in DOMAIN theta |->
                            RDiv(RInt(1), RMul(theta[i], theta[i]))],
            !.magnitude = RInt(1),
            !.attrs = @ \cup {"theta", "itheta2", "magnitude"}]

SVGaussianKernel_ard_init(k, hyperparams) ==
    LET base == GaussianKernel_ard_init(k, ButLast(hyperparams))
        sv   == SVKernel_init(base, Last(hyperparams))
    IN  [sv EXCEPT !.hyperparams = hyperparams, !.writeable = FALSE]

MaternKernel3_init(k, hyperparams) ==
    [Kernel_init(k, hyperparams) EXCEPT
        !.theta = hyperparams[1], !.magnitude = hyperparams[2],
        !.sf2 = SignalVariance(hyperparams[2]), !.sqrt3 = Sqrt(RInt(3)),
        !.attrs = @ \cup {"theta", "magnitude", "sf2", "sqrt3"}]

MaternKernel5_init(k, hyperparams) ==
    [Kernel_init(k, hyperparams) EXCEPT
        !.theta = hyperparams[1], !.magnitude = hyperparams[2],
        !.sf2 = SignalVariance(hyperparams[2]),
        !.attrs = @ \cup {"theta", "magnitude", "sf2"}]

\* cls(hyperparams) completes: the Matern constructors read hyperparams[1]
Constructible(cls, hyperparams) ==
    cls \in {"MaternKernel3", "MaternKernel5"} => Len(hyperparams) >= 2

Construct(cls, hyperparams) ==
    LET k == NewObject(cls)
    IN  CASE cls = "Kernel" -> Kernel_init(k, hyperparams)
          [] cls = "GaussianKernel_iso" -> GaussianKernel_iso_init(k, hyperparams)
          [] cls = "SVGaussianKernel_iso" -> SVGaussianKernel_iso_init(k, hyperparams)
          [] cls = "GaussianKernel_ard" -> GaussianKernel_ard_init(k, hyperparams)
          [] cls = "SVGaussianKernel_ard" -> SVGaussianKernel_ard_init(k, hyperparams)
          [] cls = "MaternKernel3" -> MaternKernel3_init(k, hyperparams)
          [] cls = "MaternKernel5" -> MaternKernel5_init(k, hyperparams)

-----------------------------------------------------------------------------
\* cov.  A call ends in [kind, val, out]: kind "float" (val a float),
\* "ndarray" (val a 1-d array of floats), "matrix", "None", or "raise"
\* (val the exception class); out is what the call printed.

Returns(kind, val) == [kind |-> kind, val |-> val, out |-> <<>>]
Raises(exc) == [kind |-> "raise", val |-> exc, out |-> <<>>]

Kernel_cov(k, x1, x2) == Raises("NotImplementedError")

\* self._sf2 * k
covScale(k, r) ==
    CASE r.kind = "float" -> [r EXCEPT !.val = FScale(k.sf2, @)]
      [] r.kind = "ndarray" ->
            [r EXCEPT !.val = [i \in DOMAIN @ |-> FScale(k.sf2, @[i])]]
      [] r.kind = "None" -> [r EXCEPT !.kind = "raise", !.val = "TypeError"]
      [] OTHER -> r

\* exp(-.5 * norm(x1-x2)**2 * self._itheta2): itheta2 is an array, and so
\* is the result
GaussianKernel_iso_cov(k, x1, x2) ==
    Returns("ndarray",
            [i \in DOMAIN k.itheta2 |->
                exp_neg(RMul(Rat(1, 2), RMul(SqDist(x1, x2), k.itheta2[i])))])

\* the scaled kernel's cov without covScale
SVGaussianKernel_iso_cov_unscaled(k, x1, x2) == GaussianKernel_iso_cov(k, x1, x2)

SVGaussianKernel_iso_cov(k, x1, x2) == covScale(k, GaussianKernel_iso_cov(k, x1, x2))

\* numpy broadcasting of self._itheta2 * (x1-x2)**2
Broadcastable(a, b) == Len(a) = Len(b) \/ Len(a) = 1 \/ Len(b) = 1
BroadcastMul(a, b) ==
    IF Len(a) = Len(b) THEN [i \in DOMAIN a |-> RMul(a[i], b[i])]
    ELSE IF Len(a) = 1 THEN [i \in DOMAIN b |-> RMul(a[1], b[i])]
    ELSE [i \in DOMAIN a |-> RMul(a[i], b[1])]

\* self._magnitude*exp(-.5 * sum(self._itheta2 * (x1-x2)**2))
GaussianKernel_ard_cov(k, x1, x2) ==
    LET d2 == ArrSq(ArrSub(x1, x2))
    IN  IF ~Broadcastable(k.itheta2, d2) THEN Raises("ValueError")
        ELSE Returns("float",
                     FScale(k.magnitude,
                            exp_neg(RMul(Rat(1, 2), RSum(BroadcastMul(k.itheta2, d2))))))

SVGaussianKernel_ard_cov(k, x1, x2) == covScale(k, GaussianKernel_ard_cov(k, x1, x2))

\* z = self.sqrt3 * norm(x1-x2) / self._theta, kept by its square
MaternKernel3_cov(k, x1, x2) ==
    LET z == Sqrt(RDiv(RMul(k.sqrt3.sq, SqDist(x1, x2)), RMul(k.theta, k.theta)))
    IN  Returns("float", Flt(k.sf2, "m3", z.sq))

\* z = sum((sqrt(5.0) * array(x1-x2) / self._theta)**2.0)
Matern5_z(k, x1, x2) == RDiv(RMul(RInt(5), SqDist(x1, x2)), RMul(k.theta, k.theta))

\* the value is computed and printed; the method ends without a return
MaternKernel5_cov(k, x1, x2) ==
    LET z == Flt(k.sf2, "m5", Matern5_z(k, x1, x2))
    IN  [kind |-> "None", val |-> <<>>, out |-> <<z>>]

\* self.cov(x1, x2), resolved by the class of self
cov(k, x1, x2) ==
    CASE k.cls = "Kernel" -> Kernel_cov(k, x1, x2)
      [] k.cls = "GaussianKernel_iso" -> GaussianKernel_iso_cov(k, x1, x2)
      [] k.cls = "SVGaussianKernel_iso" -> SVGaussianKernel_iso_cov(k, x1, x2)
      [] k.cls = "GaussianKernel_ard" -> GaussianKernel_ard_cov(k, x1, x2)
      [] k.cls = "SVGaussianKernel_ard" -> SVGaussianKernel_ard_cov(k, x1, x2)
      [] k.cls = "MaternKernel3" -> MaternKernel3_cov(k, x1, x2)
      [] k.cls = "MaternKernel5" -> MaternKernel5_cov(k, x1, x2)

-----------------------------------------------------------------------------
\* covMatrix.  A matrix call ends in a frame [kind, val, out, calls, written]:
\* calls lists the (i, j) for which cov was invoked, in order, and written
\* is the set of cells of K that were assigned.

Frame(kind, val) ==
    [kind |-> kind, val |-> val, out |-> <<>>, calls |-> <<>>, written |-> {}]

\* NX, _ = vstack(X).shape
NumRows(X) == Cardinality(DOMAIN X)

\* ones((NX, NX)) and zeros(K.shape)
ones(NX) == [i \in 0..(NX - 1) |-> [j \in 0..(NX - 1) |-> Num(RInt(1))]]
zeros(NX) == [i \in 0..(NX - 1) |-> [j \in 0..(NX - 1) |-> Num(RInt(0))]]

\* what K[i, j] = value stores in a float matrix: a float as it is, None as
\* nan, an array of one element as that element; any other array is refused
setitem(r) ==
    CASE r.kind = "float" -> Returns("float", r.val)
      [] r.kind = "None" -> Returns("float", NaN)
      [] r.kind = "ndarray" ->
            IF Len(r.val) = 1 THEN Returns("float", r.val[1]) ELSE Raises("ValueError")
      [] OTHER -> r

\* K[i, j] = K[j, i] = value
AssignMirrored(K, i, j, v) == [K EXCEPT ![i][j] = v, ![j][i] = v]
MirroredCells(i, j) == {<<i, j>>, <<j, i>>}

\* the inner loop as xrange(i), which skips the diagonal
covMatrix_jstop_strict(i) == i

\* for j in xrange(i+1): the stop of the inner loop of covMatrix
covMatrix_jstop(i) == i + 1

RECURSIVE covMatrix_loop(_, _, _, _, _)
covMatrix_loop(k, X, i, j, fr) ==
    IF i >= NumRows(X) THEN fr
    ELSE IF j >= covMatrix_jstop(i) THEN covMatrix_loop(k, X, i + 1, 0, fr)
    ELSE LET r == cov(k, X[i], X[j])
             called == [fr EXCEPT !.calls = Append(@, <<i, j>>), !.out = @ \o r.out]
             s == setitem(r)
         IN  IF s.kind = "raise"
             THEN [called EXCEPT !.kind = "raise", !.val = s.val]
             ELSE covMatrix_loop(k, X, i, j + 1,
                     [called EXCEPT !.val = AssignMirrored(@, i, j, s.val),
                                    !.written = @ \cup MirroredCells(i, j)])

covMatrix(k, X) == covMatrix_loop(k, X, 0, 0, Frame("matrix", ones(NumRows(X))))

-----------------------------------------------------------------------------
\* derivative.

\* an abstract derivative that returns instead of raising
Kernel_derivative_silent(k, X, hp) == Frame("None", <<>>)

Kernel_derivative(k, X, hp) == Frame("raise", "NotImplementedError")

\* the value assigned to C[i, j] and C[j, i] by the derivative loop of
\* GaussianKernel_iso ("iso"), MaternKernel3 ("m3"), MaternKernel5 ("m5")
derivative_entry(m, k, x1, x2) ==
    CASE m = "iso" ->
            Returns("ndarray",
                    [t \in DOMAIN k.itheta2 |-> Num(RMul(SqDist(x1, x2), k.itheta2[t]))])
      [] m = "m3" ->
            LET r == Sqrt(SqDist(x1, x2))
            IN  Returns("float", Flt(RMul(k.sf2, r.sq), "rexp", r.sq))
      [] m = "m5" ->
            Returns("float",
                    Flt(RDiv(k.sf2, RInt(3)), "m5d", Matern5_z(k, x1, x2)))

\* for i in xrange(NX): for j in xrange(i): C[i, j] = C[j, i] = ...
RECURSIVE derivative_loop(_, _, _, _, _, _)
derivative_loop(m, k, X, i, j, fr) ==
    IF i >= NumRows(X) THEN fr
    ELSE IF j >= i THEN derivative_loop(m, k, X, i + 1, 0, fr)
    ELSE LET s == setitem(derivative_entry(m, k, X[i], X[j]))
         IN  IF s.kind = "raise" THEN [fr EXCEPT !.kind = "raise", !.val = s.val]
             ELSE derivative_loop(m, k, X, i, j + 1,
                     [fr EXCEPT !.val = AssignMirrored(@, i, j, s.val)])

\* K * C, elementwise
MatMul(K, C) == [i \in DOMAIN K |-> [j \in DOMAIN K[i] |-> FMul(K[i][j], C[i][j])]]

\* 2.0 * K; an exception raised while K was built passes through
TwoTimes(fr) ==
    IF fr.kind = "matrix"
    THEN [fr EXCEPT !.val = [i \in DOMAIN @ |-> [j \in DOMAIN @[i] |->
                                FScale(RInt(2), @[i][j])]]]
    ELSE fr

GaussianKernel_iso_derivative(k, X, hp) ==
    LET K == covMatrix(k, X)
        C == derivative_loop("iso", k, X, 0, 0, [K EXCEPT !.val = zeros(NumRows(X))])
    IN  IF K.kind = "raise" THEN K
        ELSE IF hp = 0
             THEN IF C.kind = "raise" THEN C
                  ELSE [K EXCEPT !.val = MatMul(K.val, C.val)]
        ELSE [K EXCEPT !.kind = "raise", !.val = "ValueError"]

\* no else branch: any other index falls off the end of the method
SVGaussianKernel_iso_derivative(k, X, hp) ==
    IF hp = 0 THEN GaussianKernel_iso_derivative(k, X, hp)
    ELSE IF hp = 1 THEN TwoTimes(covMatrix(k, X))
    ELSE Frame("None", <<>>)

\* GaussianKernel_ard defines no derivative (its text is a string literal)
GaussianKernel_ard_derivative(k, X, hp) == Kernel_derivative(k, X, hp)

SVGaussianKernel_ard_derivative(k, X, hp) ==
    IF hp < Len(k.theta) THEN GaussianKernel_ard_derivative(k, X, hp)
    ELSE IF hp = Len(k.theta) THEN TwoTimes(covMatrix(k, X))
    ELSE Frame("None", <<>>)

Matern_derivative(m, k, X, hp) ==
    LET K == covMatrix(k, X)
        C == derivative_loop(m, k, X, 0, 0, [K EXCEPT !.val = zeros(NumRows(X))])
    IN  IF K.kind = "raise" THEN K
        ELSE IF hp = 0 THEN C
        ELSE IF hp = 1 THEN TwoTimes(K)
        ELSE [K EXCEPT !.kind = "raise", !.val = "ValueError"]

MaternKernel3_derivative(k, X, hp) == Matern_derivative("m3", k, X, hp)
MaternKernel5_derivative(k, X, hp) == Matern_derivative("m5", k, X, hp)

\* self.derivative(X, hp), resolved by the class of self
derivative(k, X, hp) ==
    CASE k.cls = "Kernel" -> Kernel_derivative(k, X, hp)
      [] k.cls = "GaussianKernel_iso" -> GaussianKernel_iso_derivative(k, X, hp)
      [] k.cls = "SVGaussianKernel_iso" -> SVGaussianKernel_iso_derivative(k, X, hp)
      [] k.cls = "GaussianKernel_ard" -> GaussianKernel_ard_derivative(k, X, hp)
      [] k.cls = "SVGaussianKernel_ard" -> SVGaussianKernel_ard_derivative(k, X, hp)
      [] k.cls = "MaternKernel3" -> MaternKernel3_derivative(k, X, hp)
      [] k.cls = "MaternKernel5" -> MaternKernel5_derivative(k, X, hp)

-----------------------------------------------------------------------------
\* The hyperparams property and a write through it.

getHyperparams(k) == k.hyperparams

\* kernel.hyperparams[i] = v: the array refuses when its write flag is off
hyperparams_setitem(k, i, v) ==
    IF k.writeable
    THEN [obj |-> [k EXCEPT !.hyperparams = [getHyperparams(k) EXCEPT ![i] = v]],
          fr |-> Frame("None", <<>>)]
    ELSE [obj |-> k, fr |-> Frame("raise", "ValueError")]

-----------------------------------------------------------------------------
\* The state machine: one kernel object and the caller's current call.

Idle == [name |-> "idle", X |-> NoBatch, hp |-> 0, v |-> RInt(0)]
Call(name, X, hp, v) == [name |-> name, X |-> X, hp |-> hp, v |-> v]

HpIndices == (0 - 1)..MaxHpLen

Init ==
    /\ self \in {Construct(cls, h) : <<cls, h>> \in
                    {c \in Classes \X HpVectors : Constructible(c[1], c[2])}}
    /\ op = Idle
    /\ ret = [kind |-> "idle", val |-> <<>>]
    /\ covCalls = <<>>
    /\ written = {}
    /\ stdout = <<>>

Finish(call, fr) ==
    /\ op' = call
    /\ ret' = [kind |-> fr.kind, val |-> fr.val]
    /\ covCalls' = fr.calls
    /\ written' = fr.written
    /\ stdout' = fr.out

Cov ==
    /\ op.name = "idle"
    /\ \E D \in Dims : \E x1, x2 \in Points(D) :
          LET r == cov(self, x1, x2)
          IN  Finish(Call("cov", <<x1, x2>>, 0, RInt(0)),
                     [Frame(r.kind, r.val) EXCEPT !.out = r.out])
    /\ UNCHANGED self

CovMatrix ==
    /\ op.name = "idle"
    /\ \E X \in Batches : Finish(Call("covMatrix", X, 0, RInt(0)), covMatrix(self, X))
    /\ UNCHANGED self

Derivative ==
    /\ op.name = "idle"
    /\ \E X \in Batches : \E hp \in HpIndices :
          Finish(Call("derivative", X, hp, RInt(0)), derivative(self, X, hp))
    /\ UNCHANGED self

WriteHyperparam ==
    /\ op.name = "idle"
    /\ \E i \in DOMAIN self.hyperparams : \E h \in HpValues :
          LET w == hyperparams_setitem(self, i, RInt(h))
          IN  /\ self' = w.obj
              /\ Finish(Call("write", NoBatch, i, RInt(h)), w.fr)

\* the caller takes the outcome; the call's locals are gone
Return ==
    /\ op.name # "idle"
    /\ op' = Idle
    /\ ret' = [kind |-> "idle", val |-> <<>>]
    /\ covCalls' = <<>>
    /\ written' = {}
    /\ stdout' = <<>>
    /\ UNCHANGED self

Next == Cov \/ CovMatrix \/ Derivative \/ WriteHyperparam \/ Return

Spec == Init /\ [][Next]_vars

-----------------------------------------------------------------------------
\* Properties.

Rows == 0..(NumRows(op.X) - 1)
Returned(name) == op.name = name /\ ret.kind = "matrix"
RaisedError(exc) == ret.kind = "raise" /\ ret.val = exc
IsSquare(M) == DOMAIN M = Rows /\ \A i \in Rows : DOMAIN M[i] = Rows
Symmetric(M) == \A i, j \in DOMAIN M : FEq(M[i][j], M[j][i])
HpLen == Len(self.hyperparams)

\* The kernel was built from a vector of the length its class documents:
\* [width, noise] and [width, magnitude] for the isotropic Gaussian and the
\* Matern kernels, one more for the scaled isotropic Gaussian, at least one
\* length-scale before the trailing slots of the ARD kernels.
DocumentedLength ==
    CASE self.cls \in {"GaussianKernel_iso", "MaternKernel3", "MaternKernel5"} -> HpLen = 2
      [] self.cls = "SVGaussianKernel_iso" -> HpLen = 3
      [] self.cls = "GaussianKernel_ard" -> HpLen >= 2
      [] self.cls = "SVGaussianKernel_ard" -> HpLen >= 2
      [] OTHER -> TRUE

\* C1: for every kernel variant and every batch X of N >= 1 points, the
\* matrix returned by covMatrix(X) is symmetric: K[i][j] equals K[j][i] for
\* all i, j in 0..N-1.
C1_CovMatrixSymmetric == Returned("covMatrix") => Symmetric(ret.val)

\* C2: for every kernel variant and every hyperparameter index outside that
\* variant's valid range (here: outside 0..L-1 for a vector of length L, which
\* is outside every variant's range), derivative(X, index) ends in ValueError;
\* it never returns a matrix, never returns nothing, never ends in another
\* error.
C2_InvalidIndexRaisesValueError ==
    (/\ op.name = "derivative"
     /\ self.cls # "Kernel"
     /\ DocumentedLength
     /\ (op.hp < 0 \/ op.hp >= HpLen))
    => RaisedError("ValueError")

\* C3: MaternKernel5.cov(x1, x2) returns the computed covariance value
\* sf2 * exp(-sqrt z) * (1 + sqrt z + z/3) to its caller for every pair of
\* points, not an absent value.
C3_Matern5CovReturnsValue ==
    (op.name = "cov" /\ self.cls = "MaternKernel5")
    => /\ ret.kind = "float"
       /\ ret.val = Flt(self.sf2, "m5", Matern5_z(self, op.X[1], op.X[2]))

\* C4: the stored hyperparameter vector and the derived cache (theta,
\* itheta2, sf2, magnitude) never change after construction, whatever is
\* called and however the call ends, and a write through the hyperparams
\* accessor is rejected.
C4_KernelStateFixed ==
    [][/\ self' = self
       /\ op'.name = "write" => (ret'.kind = "raise" /\ ret'.val = "ValueError")]_vars

C4_Witness ==
    /\ op.name = "write"
    /\ RaisedError("ValueError")
    /\ self = Construct(self.cls, self.hyperparams)
    /\ op.v # self.hyperparams[op.hp]

\* exp(-0.5 * |x1 - x2|^2 / width^2), width the first hyperparameter
IsoValue(x1, x2) ==
    exp_neg(RMul(Rat(1, 2),
                 RDiv(SqDist(x1, x2), RMul(self.hyperparams[1], self.hyperparams[1]))))

\* C5: for an isotropic Gaussian kernel built from [width, noise], cov(x1, x2)
\* returns one real value, exp(-0.5 * |x1 - x2|^2 / width^2), in which the
\* noise slot plays no part, so covMatrix(X) succeeds and each entry is that
\* value.
C5_IsoCovIsOneReal ==
    (self.cls = "GaussianKernel_iso" /\ HpLen = 2)
    => /\ op.name = "cov" =>
            (ret.kind = "float" /\ FEq(ret.val, IsoValue(op.X[1], op.X[2])))
       /\ op.name = "covMatrix" =>
            /\ ret.kind = "matrix"
            /\ \A i, j \in Rows : FEq(ret.val[i][j], IsoValue(op.X[i], op.X[j]))

\* C6: for every kernel with a magnitude hyperparameter (Matern 3/2, Matern
\* 5/2, scaled isotropic Gaussian from [width, noise, magnitude], scaled ARD
\* Gaussian) built from a vector of length L, derivative(X, L-1) returns a
\* matrix equal, entry by entry, to 2 times that kernel's covMatrix(X).
C6_MagnitudeDerivativeIsTwiceK ==
    (/\ op.name = "derivative"
     /\ self.cls \in {"MaternKernel3", "MaternKernel5",
                      "SVGaussianKernel_iso", "SVGaussianKernel_ard"}
     /\ DocumentedLength
     /\ op.hp = HpLen - 1)
    => LET K == covMatrix(self, op.X)
       IN  /\ ret.kind = "matrix"
           /\ K.kind = "matrix"
           /\ \A i, j \in Rows : FEq(ret.val[i][j], FScale(RInt(2), K.val[i][j]))

\* C7: for every kernel variant with a derivative (isotropic Gaussian and its
\* scaled variant at index 0, the Matern kernels at 0 and 1) and every batch X
\* of N points, derivative(X, h) returns an N x N symmetric matrix.
C7_DerivativeSymmetric ==
    (/\ op.name = "derivative"
     /\ DocumentedLength
     /\ \/ self.cls \in {"GaussianKernel_iso", "SVGaussianKernel_iso"} /\ op.hp = 0
        \/ self.cls \in {"MaternKernel3", "MaternKernel5"} /\ op.hp \in {0, 1})
    => /\ ret.kind = "matrix"
       /\ IsSquare(ret.val)
       /\ Symmetric(ret.val)

\* The entry C[i][j] of the width derivative: |X[i] - X[j]|^2 * itheta2 off
\* the diagonal, 0 on it; and the unscaled Gaussian covariance of a pair.
WidthFactor(i, j) ==
    IF i = j THEN Num(RInt(0))
    ELSE Num(RMul(SqDist(op.X[i], op.X[j]), self.itheta2[1]))
BaseCov(i, j) == GaussianKernel_iso_cov(self, op.X[i], op.X[j]).val[1]

\* C8 as stated: for the scaled isotropic Gaussian kernel, each entry of
\* derivative(X, 0) is baseCov(X[i], X[j]) * C[i][j] with baseCov the unscaled
\* Gaussian covariance: no sf2 factor, the same for every magnitude.
C8_WidthDerivativeUnscaled ==
    (self.cls = "SVGaussianKernel_iso" /\ Returned("derivative") /\ op.hp = 0)
    => \A i, j \in Rows : FEq(ret.val[i][j], FMul(BaseCov(i, j), WidthFactor(i, j)))

\* C8 as amended: whenever derivative(X, 0) of the scaled isotropic Gaussian
\* kernel returns a matrix, each entry is sf2 * baseCov(X[i], X[j]) * C[i][j]:
\* the base derivative builds K through the scaled kernel's own cov, so the
\* result carries the sf2 factor.
C8_WidthDerivativeScaled ==
    (self.cls = "SVGaussianKernel_iso" /\ Returned("derivative") /\ op.hp = 0)
    => \A i, j \in Rows :
          FEq(ret.val[i][j],
              FMul(FScale(self.sf2, BaseCov(i, j)), WidthFactor(i, j)))

C8_Witness ==
    /\ self.cls = "SVGaussianKernel_iso" /\ Returned("derivative") /\ op.hp = 0
    /\ self.sf2 # RInt(1)
    /\ \E i, j \in Rows : ret.val[i][j] # Num(RInt(0))

Max(a, b) == IF a >= b THEN a ELSE b
Min(a, b) == IF a <= b THEN a ELSE b

\* C9: a call of covMatrix on N points that returns has invoked cov exactly
\* once for each pair (i, j) with i >= j, N(N+1)/2 times in all and never
\* for i < j; it wrote each invocation's value into cells (i, j) and (j, i),
\* and every one of the N^2 cells was written.
C9_EachPairOnce ==
    Returned("covMatrix")
    => /\ Len(covCalls) * 2 = NumRows(op.X) * (NumRows(op.X) + 1)
       /\ \A i, j \in Rows :
            Cardinality({n \in DOMAIN covCalls : covCalls[n] = <<i, j>>})
                = IF i >= j THEN 1 ELSE 0
       /\ written = Rows \X Rows
       /\ \A i, j \in Rows :
            ret.val[i][j] =
                setitem(cov(self, op.X[Max(i, j)], op.X[Min(i, j)])).val

C9_Witness ==
    /\ Returned("covMatrix")
    /\ NumRows(op.X) >= 2
    /\ Len(covCalls) >= 3

\* C10: cov and derivative end in NotImplementedError, returning no value, on
\* a kernel whose class does not override them: cov and derivative on Kernel
\* itself, derivative on the ARD Gaussian kernel, and derivative(X, hp) with
\* hp below the number of length-scales on the scaled ARD Gaussian kernel.
C10_NotOverriddenRaises ==
    /\ (op.name \in {"cov", "derivative"} /\ self.cls = "Kernel")
            => RaisedError("NotImplementedError")
    /\ (op.name = "derivative" /\ self.cls = "GaussianKernel_ard")
            => RaisedError("NotImplementedError")
    /\ (op.name = "derivative" /\ self.cls = "SVGaussianKernel_ard"
            /\ op.hp < HpLen - 1)
            => RaisedError("NotImplementedError")

C10_Witness ==
    /\ op.name = "derivative" /\ self.cls = "SVGaussianKernel_ard"
    /\ op.hp >= 0 /\ op.hp < HpLen - 1
    /\ RaisedError("NotImplementedError")
====
